---------------------------- MODULE Spec2Model ----------------------------
(***************************************************************************)
(* Model of the result-aggregation pipeline of Shiny-PWAS (backend.py,     *)
(* plotting.py, app.py).                                                   *)
(*                                                                         *)
(* A pandas DataFrame is a record [cols, rows]: cols is the set of column  *)
(* names, rows the sequence of rows in positional order.  Every row is a   *)
(* record of one shape; a field whose column is not in cols holds the      *)
(* missing value.  The field idx is the row's pandas index label.          *)
(* p and q values are integers on a grid of hundredths (0.05 is 5); a      *)
(* missing number (NaN) is NaN, a missing object (None / NaN) is NA.       *)
(***************************************************************************)
EXTENDS Integers, Sequences, FiniteSets, TLC

VARIABLES df, catalog, filters, call, res, cache, fetches, failures,
          genes, remote, logs, threads, draws, runs, dl_msg

\* the text of the gene input, the answers of the service, the log window,
\* the callers of outcome_catalog in flight, the number of random variates
\* drawn so far, the runs made so far (what each returned), the
\* message under the download button
ioVars == <<genes, remote, logs, threads, draws, runs, dl_msg>>

vars == <<df, catalog, filters, call, res, cache, fetches, failures,
          genes, remote, logs, threads, draws, runs, dl_msg>>

\* dl_msg = reactive.Value(...)
DlPrompt == "Click 'Download CSV' to save the combined table with all rows."

\* nothing entered, loaded, logged, called or drawn
IoIdle ==
  /\ genes = <<>> /\ remote = <<>> /\ logs = <<>>
  /\ threads = <<>> /\ draws = 0 /\ runs = <<>>
  /\ dl_msg = DlPrompt

-----------------------------------------------------------------------------
(* Values *)

NaN == -1
NA == "<NA>"

KIND_CONT == "CONTINUOUS_VARIABLE"
KIND_CV == "CV_ENDPOINTS"
KIND_SELF == "SELF_REPORTED"
KIND_PHE == "PHECODES"
VALID_KINDS == {KIND_CONT, KIND_CV, KIND_SELF, KIND_PHE}
KIND_ORDER == <<KIND_CONT, KIND_CV, KIND_SELF, KIND_PHE>>

\* the label columns of the catalog, in the order enrich_labels tries them
LabelCols == <<"description", "outcome_string", "name", "label", "phenotype">>
LabelColSet == {LabelCols[i] : i \in 1..Len(LabelCols)}

\* bounds of the model
MaxRows == 3
MaxN == 2

Genes == {"PCSK9", "APOB"}
Metrics == {NaN, 1, 2}

-----------------------------------------------------------------------------
(* Frames *)

Row(i, g, k, o, pv, qv, os) ==
  [idx |-> i, gene |-> g, analysis_type |-> k, outcome_id |-> o,
   p |-> pv, q |-> qv,
   description |-> NA, outcome_string |-> os, name |-> NA, label |-> NA,
   phenotype |-> NA, Description |-> NA, x |-> NaN, vals |-> NaN]

Frame(c, r) == [cols |-> c, rows |-> r]

EmptyFrame == Frame({}, <<>>)

\* the result of a call: a frame, or the exception it raised
Returned(f) == [raised |-> FALSE, cols |-> f.cols, rows |-> f.rows]
Raised == [raised |-> TRUE, cols |-> {}, rows |-> <<>>]
NoResult == [raised |-> FALSE, cols |-> {"<none>"}, rows |-> <<>>]
NoCall ==
  [fn |-> "none", kind |-> "", n |-> 0, metric |-> "", threshold |-> 0,
   use_log |-> FALSE, seed |-> 0]

RECURSIVE SelectSeq2(_, _)
\* the subsequence of s at the positions in keep, in order
SelectSeq2(s, keep) ==
  IF s = <<>> THEN <<>>
  ELSE LET n == Len(s)
           front == SelectSeq2(SubSeq(s, 1, n - 1), keep)
       IN IF n \in keep THEN Append(front, s[n]) ELSE front

RowSet(rows) == {rows[i] : i \in 1..Len(rows)}

MaxOfSecond(a, b) == b

Max(a, b) == IF a >= b THEN a ELSE b

-----------------------------------------------------------------------------
(* backend.top_n_per_gene *)

\* a < b in pandas' ascending order with missing values last
Before(a, b) == a # NaN /\ (b = NaN \/ a < b)

Field(r, c) == IF c = "q" THEN r.q ELSE r.p

RECURSIVE LexBefore(_, _, _)
\* r1 sorts strictly before r2 under the sort columns by (a sequence)
LexBefore(r1, r2, by) ==
  IF by = <<>> THEN FALSE
  ELSE \/ Before(Field(r1, by[1]), Field(r2, by[1]))
       \/ /\ Field(r1, by[1]) = Field(r2, by[1])
          /\ LexBefore(r1, r2, Tail(by))

Perms(n) == {f \in [1..n -> 1..n] : \A i, j \in 1..n : i # j => f[i] # f[j]}

\* DataFrame.sort_values(by, ascending=True): the orders it can leave the rows
\* in, as permutations (output position -> input position).  Several columns
\* are sorted by a stable lexsort.  One column is sorted by nargsort with
\* kind="quicksort": the missing values go last in their input order and the
\* others are sorted by a sort that is not stable, so rows that tie may come
\* out in any order.
SortOrders(rows, by) ==
  {f \in Perms(Len(rows)) :
     \A i, j \in 1..Len(rows) : i < j =>
        /\ ~LexBefore(rows[f[j]], rows[f[i]], by)
        /\ (/\ ~LexBefore(rows[f[i]], rows[f[j]], by)
            /\ (Len(by) > 1 \/ Field(rows[f[i]], by[1]) = NaN))
           => f[i] < f[j]}

HeadPositionsOffByOne(rows, n) ==
  {i \in 1..Len(rows) :
     Cardinality({j \in 1..(i - 1) : rows[j].gene = rows[i].gene}) <= n}

\* groupby("gene").head(n): the positions of the rows that are among the
\* first n of their gene
HeadPositions(rows, n) ==
  {i \in 1..Len(rows) :
     Cardinality({j \in 1..(i - 1) : rows[j].gene = rows[i].gene}) < n}

WithGene(f) ==
  IF "gene" \in f.cols THEN f
  ELSE Frame(f.cols \cup {"gene"},
             [i \in 1..Len(f.rows) |-> [f.rows[i] EXCEPT !.gene = "unknown"]])

SortColsPFirst(cols) ==
  (IF "p" \in cols THEN <<"p">> ELSE <<>>) \o (IF "q" \in cols THEN <<"q">> ELSE <<>>)

\* sort_cols = [c for c in ("q", "p") if c in sub.columns]
SortCols(cols) ==
  (IF "q" \in cols THEN <<"q">> ELSE <<>>) \o (IF "p" \in cols THEN <<"p">> ELSE <<>>)

\* the results top_n_per_gene(f, analysis_type, n) can give
top_n_per_gene(f, analysis_type, n) ==
  IF "analysis_type" \notin f.cols THEN {Raised}
  ELSE
    LET sub == SelectSeq(f.rows, LAMBDA r : r.analysis_type = analysis_type)
        by == SortCols(f.cols)
    IN IF sub = <<>> THEN {Returned(Frame(f.cols, sub))}
       ELSE IF by = <<>> THEN {Raised}
       ELSE {LET sorted == [i \in 1..Len(sub) |-> sub[o[i]]]
                 g == WithGene(Frame(f.cols, sorted))
             IN Returned(Frame(g.cols,
                               SelectSeq2(g.rows, HeadPositions(g.rows, Max(1, n))))) :
             o \in SortOrders(sub, by)}

-----------------------------------------------------------------------------
(* Ranking: top_n_per_gene applied to result tables *)

RankKinds == {KIND_CONT, KIND_CV}
BaseCols == {"gene", "analysis_type", "outcome_id"}

\* the (q, p) pairs of the rows of a table: both columns, q only, p only, none
MetricPairs(cols) ==
  IF {"p", "q"} \subseteq cols
  THEN {<<1, 2>>, <<2, 1>>, <<NaN, 1>>}
  ELSE IF "q" \in cols THEN {<<m, NaN>> : m \in Metrics}
  ELSE IF "p" \in cols THEN {<<NaN, m>> : m \in Metrics}
  ELSE {<<NaN, NaN>>}

RankRows(cols) ==
  {Row(0, g, k, "O1", qp[2], qp[1], NA) :
     g \in Genes, k \in RankKinds, qp \in MetricPairs(cols)}

\* pd.concat(frames, ignore_index=True) numbers the rows 0, 1, 2, ...
Reindexed(rows) == [i \in 1..Len(rows) |-> [rows[i] EXCEPT !.idx = i - 1]]

\* the lru_cache of outcome_catalog: empty, or holding the frame it returned
EmptyCache == [full |-> FALSE, frame |-> EmptyFrame]
Cached(f) == [full |-> TRUE, frame |-> f]

\* a filters argument: None, or a list of values (as a set)
None == [none |-> TRUE, values |-> {}]
List(vs) == [none |-> FALSE, values |-> vs]

NoRequests == cache = EmptyCache /\ fetches = 0 /\ failures = 0

Quiet == catalog = EmptyFrame /\ filters = None /\ NoRequests

InitRank ==
  /\ \E pq \in SUBSET {"p", "q"}, k \in 0..MaxRows :
       \E rs \in [1..k -> RankRows(pq)] :
          df = Frame(BaseCols \cup pq, Reindexed(rs))
  /\ call = NoCall
  /\ res = NoResult
  /\ IoIdle
  /\ Quiet

TopN(k, n) ==
  /\ call.fn = "none"
  /\ call' = [call EXCEPT !.fn = "top_n_per_gene", !.kind = k, !.n = n]
  /\ res' \in top_n_per_gene(df, k, n)
  /\ UNCHANGED <<df, catalog, filters, cache, fetches, failures>>
  /\ UNCHANGED ioVars

NextRank == \E k \in RankKinds, n \in 1..MaxN : TopN(k, n)

SpecRank == InitRank /\ [][NextRank]_vars

-----------------------------------------------------------------------------
(* backend.outcome_catalog and backend.enrich_labels *)

CAT_KEEP == {"outcome_id"} \cup LabelColSet

\* what outcome_catalog makes of the response of /outcome: an id column is
\* renamed to outcome_id and the columns of CAT_KEEP are kept
CatalogFrame(response) ==
  LET renamed == IF "id" \in response.cols
                 THEN (response.cols \ {"id"}) \cup {"outcome_id"}
                 ELSE response.cols
  IN Frame(renamed \cap CAT_KEEP, response.rows)

\* DataFrame.astype(str) of one value: a missing value becomes the text "nan"
Str(v) == IF v = NA THEN "nan" ELSE v

\* the catalog's value of column c for outcome o, missing without a match
CatalogValue(cat, o, c) ==
  IF c \in cat.cols /\ \E i \in 1..Len(cat.rows) : cat.rows[i].outcome_id = o
  THEN (CHOOSE e \in RowSet(cat.rows) : e.outcome_id = o)[c]
  ELSE NA

RECURSIVE FillFrom(_, _, _, _)
\* row r with its label columns that the table f lacks taken from the catalog
FillFrom(r, f, cat, cs) ==
  IF cs = <<>> THEN r
  ELSE LET c == cs[1]
           rest == FillFrom(r, f, cat, Tail(cs))
       IN IF c \in f.cols THEN rest
          ELSE [rest EXCEPT ![c] = CatalogValue(cat, r.outcome_id, c)]

\* df.merge(outcome_catalog(), on="outcome_id", how="left", suffixes=("", "_cat")):
\* one row per row of f (the catalog's outcome_id is unique), in f's order,
\* under a fresh index 0, 1, 2, ...; a label column of both sides keeps f's
\* values (the catalog's go to a _cat column that nothing reads)
Merge(f, cat) ==
  Frame(f.cols \cup cat.cols,
        [i \in 1..Len(f.rows) |->
           [FillFrom(f.rows[i], f, cat, LabelCols) EXCEPT !.idx = i - 1]])

RECURSIVE PickLabelColumn(_, _)
\* the first column of cs that merged has with a value that is not missing,
\* NA when there is none
PickLabelColumn(merged, cs) ==
  IF cs = <<>> THEN NA
  ELSE IF /\ cs[1] \in merged.cols
          /\ \E i \in 1..Len(merged.rows) : merged.rows[i][cs[1]] # NA
       THEN cs[1]
       ELSE PickLabelColumn(merged, Tail(cs))

\* Series.mask(desc.eq(""), other) at one row: other's value where desc is ""
Mask(d, other) == IF d = "" THEN other ELSE d

\* df["outcome_string"] aligned on the index label lbl of merged: the value of
\* the row of f with that label, missing when f has no such row
OwnOutcomeString(f, lbl) ==
  IF \E i \in 1..Len(f.rows) : f.rows[i].idx = lbl
  THEN (CHOOSE r \in RowSet(f.rows) : r.idx = lbl).outcome_string
  ELSE NA

DescriptionOf(f, merged, col, i) ==
  LET m == merged.rows[i]
      d0 == IF col = NA THEN ""
            ELSE IF m[col] = NA THEN "" ELSE m[col]
      d1 == IF "outcome_string" \in f.cols
            THEN Mask(d0, OwnOutcomeString(f, m.idx))
            ELSE d0
  IN Mask(d1, Str(m.outcome_id))

\* enrich_labels(f) with cat the frame outcome_catalog() returned
enrich_labels(f, cat) ==
  IF f.rows = <<>> THEN Returned(Frame(f.cols \cup {"Description"}, <<>>))
  ELSE IF "outcome_id" \notin cat.cols THEN Raised
  ELSE
    LET merged == Merge(f, cat)
        col == PickLabelColumn(merged, LabelCols)
    IN Returned(Frame(merged.cols \cup {"Description"},
                      [i \in 1..Len(merged.rows) |->
                         [merged.rows[i] EXCEPT
                            !.Description = DescriptionOf(f, merged, col, i)]]))

-----------------------------------------------------------------------------
(* Enrichment: enrich_labels applied to result tables under a catalog *)

MaxLabelRows == 2

CatIds == {"O1", "O4"}
EnrichIds == CatIds \cup {"O9"}

LabelText(c) ==
  CASE c = "description" -> "HDL cholesterol"
    [] c = "outcome_string" -> "Phecode Y"
    [] c = "name" -> "Self-reported X"
    [] c = "label" -> "Label L"
    [] OTHER -> "Phenotype P"

NoLabels == [c \in LabelColSet |-> NA]

\* the labels of one catalog entry: none, one column (description also as the
\* empty text), or description and name
EntryLabels ==
  {NoLabels, [NoLabels EXCEPT !["description"] = ""],
   [NoLabels EXCEPT !["description"] = LabelText("description"),
                    !["name"] = LabelText("name")]}
  \cup {[NoLabels EXCEPT ![c] = LabelText(c)] : c \in LabelColSet}

CatalogEntry(o, ls) ==
  [Row(0, NA, NA, o, NaN, NaN, ls["outcome_string"]) EXCEPT
     !.description = ls["description"], !.name = ls["name"],
     !.label = ls["label"], !.phenotype = ls["phenotype"]]

RECURSIVE SetToSeq(_)
SetToSeq(S) ==
  IF S = {} THEN <<>>
  ELSE LET x == CHOOSE y \in S : TRUE IN <<x>> \o SetToSeq(S \ {x})

\* pd.DataFrame(r.json()): a column for every key that some entry carries
ResponseFrame(entries) ==
  Frame((IF entries = {} THEN {} ELSE {"id"})
          \cup {c \in LabelColSet \cup {"analysis_type"} :
                  \E e \in entries : e[c] # NA},
        SetToSeq(entries))

\* the responses of /outcome with entries for some of the outcomes os: the
\* ids are unique
ResponsesOver(os) ==
  {ResponseFrame({CatalogEntry(o, ch[o]) : o \in ids}) :
     ids \in SUBSET os, ch \in [os -> EntryLabels]}

Responses == ResponsesOver(CatIds)

OwnStrings == {NA, "", "own text"}

LabelRows(cols) ==
  {Row(0, "PCSK9", KIND_CONT, o, 1, NaN, os) :
     o \in EnrichIds,
     os \in (IF "outcome_string" \in cols THEN OwnStrings ELSE {NA})}

\* the number of requests to /outcome a behaviour follows
MaxFetches == 3

\* outcome_catalog(): the cached frame, or on an empty cache the frame made
\* of the response of a request to /outcome, which lru_cache keeps; when the
\* request fails (ok false) the call raises and nothing is cached
CatalogResult(ok) ==
  IF cache.full THEN Returned(cache.frame)
  ELSE IF ok THEN Returned(CatalogFrame(catalog))
  ELSE Raised

CatalogCallCachingFailure(ok) ==
  IF cache.full THEN UNCHANGED <<cache, fetches, failures>>
  ELSE /\ fetches < MaxFetches
       /\ fetches' = fetches + 1
       /\ cache' = IF ok THEN Cached(CatalogFrame(catalog)) ELSE Cached(EmptyFrame)
       /\ failures' = IF ok THEN failures ELSE failures + 1

CatalogCall(ok) ==
  IF cache.full THEN UNCHANGED <<cache, fetches, failures>>
  ELSE /\ fetches < MaxFetches
       /\ fetches' = fetches + 1
       /\ cache' = IF ok THEN Cached(CatalogFrame(catalog)) ELSE cache
       /\ failures' = IF ok THEN failures ELSE failures + 1

\* the frame of a catalog result
CatalogOf(r) == Frame(r.cols, r.rows)

\* the catalog of the calls of the specifications below, in which every
\* request succeeds
CatalogReturned == CatalogOf(CatalogResult(TRUE))

InitEnrich ==
  /\ \E extra \in SUBSET {"outcome_string"}, k \in 0..MaxLabelRows :
       \E rs \in [1..k -> LabelRows(extra)] :
          df = Frame(BaseCols \cup {"p"} \cup extra, Reindexed(rs))
  /\ catalog \in Responses
  /\ call = NoCall
  /\ res = NoResult
  /\ IoIdle
  /\ filters = None /\ NoRequests

\* enrich_labels(df); ok tells whether a request to /outcome succeeds
EnrichLabels(ok) ==
  /\ call' = [NoCall EXCEPT !.fn = "enrich_labels"]
  /\ res' = IF df.rows = <<>> THEN enrich_labels(df, EmptyFrame)
            ELSE IF CatalogResult(ok).raised THEN Raised
            ELSE enrich_labels(df, CatalogOf(CatalogResult(ok)))
  /\ IF df.rows = <<>> THEN UNCHANGED <<cache, fetches, failures>> ELSE CatalogCall(ok)
  /\ UNCHANGED <<df, catalog, filters>>
  /\ UNCHANGED ioVars

Enrich == call.fn = "none" /\ EnrichLabels(TRUE)

\* enrich_labels applied to the frame enrich_labels returned
EnrichAgain ==
  /\ call.fn = "enrich_labels"
  /\ ~res.raised
  /\ call' = [call EXCEPT !.fn = "enrich_labels twice"]
  /\ df' = Frame(res.cols, res.rows)
  /\ res' = enrich_labels(df', CatalogReturned)
  /\ IF df'.rows = <<>> THEN UNCHANGED <<cache, fetches, failures>> ELSE CatalogCall(TRUE)
  /\ UNCHANGED <<catalog, filters>>
  /\ UNCHANGED ioVars

NextEnrich == Enrich \/ EnrichAgain

SpecEnrich == InitEnrich /\ [][NextEnrich]_vars

-----------------------------------------------------------------------------
(* backend.filter_table and backend.tidy_table *)

\* v < threshold as pandas compares: false for a missing value
Below(v, threshold) == v # NaN /\ v < threshold

TidyCols == {"Gene", "Outcome ID", "Description", "p", "q"}

\* filter_table(out, flt) with flt a list
filter_table(out, flt) ==
  IF flt.none \/ out.rows = <<>> THEN out
  ELSE Frame(out.cols, SelectSeq(out.rows, LAMBDA r : r.Description \in flt.values))

\* out = out[out[metric] < threshold], when metric is a column of out
ThresholdRows(out, metric, threshold) ==
  IF metric \in out.cols
  THEN Frame(out.cols, SelectSeq(out.rows, LAMBDA r : Below(Field(r, metric), threshold)))
  ELSE out

AllowListEmptyIsNone(out, flt) ==
  IF flt.none \/ flt.values = {} THEN out ELSE filter_table(out, flt)

\* the end of tidy_table: None keeps out, an empty list gives the empty
\* table, a list keeps the rows whose Description is listed
AllowList(out, flt) ==
  IF flt.none THEN out
  ELSE IF Cardinality(flt.values) = 0 THEN Frame(TidyCols, <<>>)
  ELSE filter_table(out, flt)

\* tidy_table(f, metric, threshold, flt) with cat the frame outcome_catalog()
\* returns.  The rows keep the model's row shape: Gene is the field gene,
\* Outcome ID the field outcome_id.
tidy_table(f, cat, metric, threshold, flt) ==
  IF f.rows = <<>> THEN Returned(Frame(TidyCols, <<>>))
  ELSE
    LET m == enrich_labels(f, cat)
        out == Frame({"Gene", "Outcome ID", "Description"} \cup (m.cols \cap {"p", "q"}),
                     [i \in 1..Len(m.rows) |->
                        IF "gene" \in m.cols THEN m.rows[i]
                        ELSE [m.rows[i] EXCEPT !.gene = ""]])
    IN IF m.raised THEN Raised
       ELSE Returned(AllowList(ThresholdRows(out, metric, threshold), flt))

\* the defaults of tidy_table: metric="p", threshold=0.05, filters=()
DefaultMetric == "p"
DefaultThreshold == 5
DefaultFilters == List({})

-----------------------------------------------------------------------------
(* Tidying: tidy_table applied to result tables *)

TidyIds == {"O1", "O9"}
PValues == {NaN, 1, 9}
Thresholds == {DefaultThreshold, 10}
FilterLists ==
  {None, DefaultFilters, List({LabelText("description")}),
   List({"O9", LabelText("name")})}

TidyRows(cols) ==
  {Row(0, "PCSK9", KIND_CONT, o, pv, NaN, NA) :
     o \in TidyIds, pv \in (IF "p" \in cols THEN PValues ELSE {NaN})}

InitTidy ==
  /\ \E pcol \in SUBSET {"p"}, k \in 0..MaxLabelRows :
       \E rs \in [1..k -> TidyRows(pcol)] :
          df = Frame(BaseCols \cup pcol, Reindexed(rs))
  /\ catalog \in ResponsesOver({"O1"})
  /\ call = NoCall
  /\ res = NoResult
  /\ IoIdle
  /\ filters = None /\ NoRequests

\* tidy_table(df, metric, threshold, filters); ok tells whether a request
\* to /outcome succeeds
TidyTable(metric, threshold, flt, ok) ==
  /\ call' = [NoCall EXCEPT !.fn = "tidy_table", !.metric = metric,
                            !.threshold = threshold]
  /\ filters' = flt
  /\ res' = IF df.rows = <<>> THEN tidy_table(df, EmptyFrame, metric, threshold, flt)
            ELSE IF CatalogResult(ok).raised THEN Raised
            ELSE tidy_table(df, CatalogOf(CatalogResult(ok)), metric, threshold, flt)
  /\ IF df.rows = <<>> THEN UNCHANGED <<cache, fetches, failures>> ELSE CatalogCall(ok)
  /\ UNCHANGED <<df, catalog>>
  /\ UNCHANGED ioVars

Tidy(metric, threshold, flt) ==
  call.fn = "none" /\ TidyTable(metric, threshold, flt, TRUE)

NextTidy ==
  \E metric \in {"p", "q"}, threshold \in Thresholds, flt \in FilterLists :
     Tidy(metric, threshold, flt)

SpecTidy == InitTidy /\ [][NextTidy]_vars

-----------------------------------------------------------------------------
(* plotting.filter_by_category_desc and plotting.prepare_plot_df *)

FILTER_MAP ==
  [k \in {"filter_cont", "filter_cv", "filter_self", "filter_phe"} |->
     CASE k = "filter_cont" -> KIND_CONT
       [] k = "filter_cv" -> KIND_CV
       [] k = "filter_self" -> KIND_SELF
       [] OTHER -> KIND_PHE]

\* a filters dict: UI key -> None or a list of values
Dict(d) == [none |-> FALSE, values |-> d]

SkipsNoneOnly(values) == values.none

\* "if not values: continue": a None entry and an empty list are skipped
Skipped(values) == values.none \/ values.values = {}

\* the mask of one row: for every entry of the dict that is not skipped and
\* whose key FILTER_MAP knows, the row is not of the entry's kind, or its
\* Description, as text, is one of the values, as texts
KeepsRow(r, d) ==
  \A k \in DOMAIN d :
     \/ Skipped(d[k])
     \/ k \notin DOMAIN FILTER_MAP
     \/ r.analysis_type # FILTER_MAP[k]
     \/ Str(r.Description) \in {Str(v) : v \in d[k].values}

\* filter_by_category_desc(f, flt, desc_col="Description", exact=True), the
\* only way the program calls it
filter_by_category_desc(f, flt) ==
  IF f.rows = <<>> \/ flt.none THEN f
  ELSE IF DOMAIN flt.values = {} THEN f
  ELSE IF "analysis_type" \notin f.cols \/ "Description" \notin f.cols THEN f
  ELSE Frame(f.cols, SelectSeq(f.rows, LAMBDA r : KeepsRow(r, flt.values)))

\* groupby(["gene", "analysis_type"]).head(n)
GroupHeadPositions(rows, n) ==
  {i \in 1..Len(rows) :
     Cardinality({j \in 1..(i - 1) :
                    /\ rows[j].gene = rows[i].gene
                    /\ rows[j].analysis_type = rows[i].analysis_type}) < n}

KindPositionFromOne(k) == CHOOSE i \in 1..Len(KIND_ORDER) : KIND_ORDER[i] = k

\* the position of a kind in KIND_ORDER, from 0
KindPosition(k) == (CHOOSE i \in 1..Len(KIND_ORDER) : KIND_ORDER[i] = k) - 1

IsKnownKind(k) == \E i \in 1..Len(KIND_ORDER) : KIND_ORDER[i] = k

\* lines 112-135 of prepare_plot_df on the labelled frame g, for one order o
\* that sort_values can leave the rows in
Projected(g, d0, o, metric, limit, flt) ==
  LET sorted == [i \in 1..Len(d0) |-> d0[o[i]]]
      top == SelectSeq2(sorted, GroupHeadPositions(sorted, Max(1, limit)))
      known == SelectSeq(top, LAMBDA r : IsKnownKind(r.analysis_type))
      d == Frame(g.cols \cup {"x", "_vals"},
                 [i \in 1..Len(known) |->
                    [known[i] EXCEPT !.x = KindPosition(known[i].analysis_type),
                                     !.vals = Field(known[i], metric)]])
  IN IF known = <<>> THEN Returned(Frame(g.cols, <<>>))
     ELSE IF flt.none THEN Returned(d)
     ELSE Returned(filter_by_category_desc(d, flt))

\* the results prepare_plot_df(f, metric, limit, catalog, flt) can give, with
\* cat the frame outcome_catalog() returns (the catalog argument is not read)
prepare_plot_df(f, metric, limit, cat, flt) ==
  IF f.rows = <<>> \/ "analysis_type" \notin f.cols THEN {Returned(EmptyFrame)}
  ELSE
    LET labelled == enrich_labels(f, cat)
        g == WithGene(Frame(labelled.cols, labelled.rows))
        d0 == SelectSeq(g.rows, LAMBDA r : Field(r, metric) # NaN)
        by == IF SortCols(g.cols) = <<>> THEN <<metric>> ELSE SortCols(g.cols)
    IN IF labelled.raised \/ metric \notin g.cols THEN {Raised}
       ELSE {Projected(g, d0, o, metric, limit, flt) : o \in SortOrders(d0, by)}

-----------------------------------------------------------------------------
(* Category filtering: result tables labelled, then filtered per category *)

FilterKinds == {KIND_CV, KIND_PHE}
FilterIds == {"O1", "O9"}

FilterRows(cols) ==
  {Row(0, "PCSK9", k, o, IF o = "O1" THEN 1 ELSE 2, NaN, os) :
     k \in FilterKinds, o \in FilterIds,
     os \in (IF "outcome_string" \in cols THEN {NA, "own text"} ELSE {NA})}

\* the catalogs: outcome O1 without a label, or with a description
FilterResponses ==
  {ResponseFrame({CatalogEntry("O1", ls)}) :
     ls \in {NoLabels, [NoLabels EXCEPT !["description"] = LabelText("description")]}}

\* what a filter panel can hold: None (panel off), nothing selected, values
Selections ==
  {None, List({}), List({LabelText("description"), "own text"}),
   List({"nan", "O9"})}

\* the dicts: an entry for some of the keys, one of which FILTER_MAP lacks
FilterDicts ==
  UNION {[ks -> Selections] : ks \in SUBSET {"filter_cv"}}
  \cup {[k \in {"filter_cv", "filter_phe"} |->
           IF k = "filter_cv" THEN sel ELSE phe] :
         sel \in Selections, phe \in {None, List({}), List({"nan", "O9"})}}
  \cup {[k \in {"filter_cv", "filter_other"} |->
           IF k = "filter_cv" THEN sel ELSE List({"O9"})] : sel \in Selections}

InitFilter ==
  /\ \E extra \in SUBSET {"outcome_string"}, k \in 0..MaxLabelRows :
       \E rs \in [1..k -> FilterRows(extra)] :
          df = Frame(BaseCols \cup {"p"} \cup extra, Reindexed(rs))
  /\ catalog \in FilterResponses
  /\ \E d \in FilterDicts : filters = Dict(d)
  /\ call = NoCall
  /\ res = NoResult
  /\ IoIdle
  /\ NoRequests

\* filter_by_category_desc applied to the frame enrich_labels returned
FilterFrame ==
  /\ call.fn = "enrich_labels"
  /\ ~res.raised
  /\ call' = [call EXCEPT !.fn = "filter_by_category_desc"]
  /\ df' = Frame(res.cols, res.rows)
  /\ res' = Returned(filter_by_category_desc(df', filters))
  /\ UNCHANGED <<catalog, filters, cache, fetches, failures>>
  /\ UNCHANGED ioVars

\* prepare_plot_df(df, metric, limit, catalog, filters); ok tells whether a
\* request to /outcome succeeds
PreparePlotDf(metric, limit, ok) ==
  /\ call' = [NoCall EXCEPT !.fn = "prepare_plot_df", !.metric = metric, !.n = limit]
  /\ IF df.rows = <<>> \/ "analysis_type" \notin df.cols
     THEN /\ res' \in prepare_plot_df(df, metric, limit, EmptyFrame, filters)
          /\ UNCHANGED <<cache, fetches, failures>>
     ELSE /\ IF CatalogResult(ok).raised THEN res' = Raised
             ELSE res' \in prepare_plot_df(df, metric, limit,
                                           CatalogOf(CatalogResult(ok)), filters)
          /\ CatalogCall(ok)
  /\ UNCHANGED <<df, catalog, filters>>
  /\ UNCHANGED ioVars

PreparePlot(metric, limit) == call.fn = "none" /\ PreparePlotDf(metric, limit, TRUE)

NextFilter ==
  \/ Enrich
  \/ FilterFrame
  \/ \E limit \in 1..MaxN : PreparePlot("p", limit)

SpecFilter == InitFilter /\ [][NextFilter]_vars

-----------------------------------------------------------------------------
(* backend.get_label_list and the catalog requests of one process *)

\* the place of a text in the order of the lower-cased texts
TextRank(t) ==
  CASE t = "HDL cholesterol" -> 1
    [] t = "Label L" -> 2
    [] t = "O1" -> 3
    [] t = "O4" -> 4
    [] t = "O9" -> 5
    [] t = "own text" -> 6
    [] t = "Phecode Y" -> 7
    [] t = "Phenotype P" -> 8
    [] OTHER -> 9

RECURSIVE SortTexts(_)
\* sort_values(key=lambda s: s.str.lower()) of distinct texts
SortTexts(S) ==
  IF S = {} THEN <<>>
  ELSE LET m == CHOOSE x \in S : \A y \in S : TextRank(x) <= TextRank(y)
       IN <<m>> \o SortTexts(S \ {m})

RECURSIVE PickLabelFrom(_, _)
PickLabelFrom(cols, cs) ==
  IF cs = <<>> THEN "id"
  ELSE IF cs[1] \in cols THEN cs[1] ELSE PickLabelFrom(cols, Tail(cs))

\* _pick_label_column
pick_label_column(cols) ==
  PickLabelFrom(cols, <<"label", "description", "name", "outcome_string">>)

\* the list get_label_list(kind) makes of the response of /outcome: the
\* labels of the outcomes of the kind, without missing and empty ones and
\* duplicates, sorted (the texts of the model have no blanks to strip)
LabelList(response, kind) ==
  IF "analysis_type" \notin response.cols THEN <<>>
  ELSE
    LET sub == SelectSeq(response.rows, LAMBDA r : r.analysis_type = kind)
        col == pick_label_column(response.cols)
        texts == {IF col = "id" THEN sub[i].outcome_id ELSE sub[i][col] :
                    i \in 1..Len(sub)}
    IN SortTexts(texts \ {NA, ""})

MaxAppRows == 1

AppLabels ==
  {NoLabels, [NoLabels EXCEPT !["label"] = LabelText("label")],
   [NoLabels EXCEPT !["description"] = LabelText("description")]}

AppKinds == {KIND_CONT, KIND_CV}

\* the responses of /outcome of the process: every entry with its kind
AppResponses ==
  {ResponseFrame({[CatalogEntry(o, ch[o]) EXCEPT !.analysis_type = kd[o]] : o \in ids}) :
     ids \in SUBSET CatIds, kd \in [CatIds -> AppKinds], ch \in [CatIds -> AppLabels]}

AppRows == {Row(0, "PCSK9", k, o, 1, NaN, NA) : k \in AppKinds, o \in {"O1", "O9"}}

\* the process after a load: a result table, no catalog request made yet
Init ==
  /\ \E k \in 0..MaxAppRows :
       \E rs \in [1..k -> AppRows] :
          df = Frame(BaseCols \cup {"p"}, Reindexed(rs))
  /\ catalog \in AppResponses
  /\ call = NoCall
  /\ res = NoResult
  /\ IoIdle
  /\ filters = None /\ NoRequests

\* a call of outcome_catalog() (plot_out passes its result on)
OutcomeCatalog(ok) ==
  /\ call' = [NoCall EXCEPT !.fn = "outcome_catalog"]
  /\ res' = CatalogResult(ok)
  /\ CatalogCall(ok)
  /\ UNCHANGED <<df, catalog, filters>>
  /\ UNCHANGED ioVars

\* get_label_list(kind): _fetch_outcomes requests /outcome on every call
GetLabelList(kind, ok) ==
  /\ call' = [NoCall EXCEPT !.fn = "get_label_list", !.kind = kind]
  /\ IF kind \notin VALID_KINDS
     THEN res' = Raised /\ UNCHANGED <<fetches, failures>>
     ELSE /\ fetches < MaxFetches
          /\ fetches' = fetches + 1
          /\ failures' = IF ok THEN failures ELSE failures + 1
          /\ res' = IF ok
                    THEN [raised |-> FALSE, cols |-> {"labels"},
                          rows |-> LabelList(catalog, kind)]
                    ELSE Raised
  /\ UNCHANGED <<df, catalog, filters, cache>>
  /\ UNCHANGED ioVars

Next ==
  \/ \E ok \in BOOLEAN : OutcomeCatalog(ok)
  \/ \E kind \in VALID_KINDS \cup {"UNKNOWN"}, ok \in BOOLEAN : GetLabelList(kind, ok)
  \/ \E ok \in BOOLEAN : EnrichLabels(ok)
  \/ \E limit \in 1..MaxN, ok \in BOOLEAN : PreparePlotDf("p", limit, ok)
  \/ \E ok \in BOOLEAN : TidyTable(DefaultMetric, DefaultThreshold, None, ok)

Spec == Init /\ [][Next]_vars

-----------------------------------------------------------------------------
(* Properties of the ranking *)

RankReturned == call.fn = "top_n_per_gene" /\ ~res.raised

\* the rows of the input table of the requested category and of gene g
Candidates(g) ==
  {r \in RowSet(df.rows) : r.analysis_type = call.kind /\ r.gene = g}

KeptOf(g) == {r \in RowSet(res.rows) : r.gene = g}

\* the value top_n_per_gene ranks a row by: q when the table has q, else p
SortValue(r) == IF "q" \in df.cols THEN r.q ELSE r.p

\* C1: top_n_per_gene(table, category, n) with n >= 1 returns at most n rows
\* for each gene, every returned row is a row of the table of the requested
\* category, and a gene with k <= n rows of that category gets all k back.
C1_AtMostNPerGene ==
  (RankReturned /\ call.n >= 1) =>
    /\ \A i \in 1..Len(res.rows) : res.rows[i].analysis_type = call.kind
    /\ \A i, j \in 1..Len(res.rows) : i # j => res.rows[i].idx # res.rows[j].idx
    /\ \A g \in Genes :
         /\ KeptOf(g) \subseteq Candidates(g)
         /\ Cardinality(KeptOf(g)) <= call.n
         /\ Cardinality(Candidates(g)) <= call.n => KeptOf(g) = Candidates(g)

\* the scenario of the specification: PCSK9 with two rows of the category,
\* APOB with one, n = 1, one row per gene returned
C1_Witness ==
  /\ RankReturned
  /\ call.n = 1
  /\ Cardinality(Candidates("PCSK9")) = 2
  /\ Cardinality(Candidates("APOB")) = 1
  /\ Len(res.rows) = 2
  /\ Len(df.rows) = 3

\* C2: the rows returned for one gene are in ascending order of q when the
\* table has q, otherwise of p (missing values last), and no row of the gene
\* that was left out has a strictly smaller sort value than a row kept.
C2_SortedSmallest ==
  RankReturned =>
    /\ \A i, j \in 1..Len(res.rows) :
         (i < j /\ res.rows[i].gene = res.rows[j].gene)
           => ~Before(SortValue(res.rows[j]), SortValue(res.rows[i]))
    /\ \A g \in Genes :
         \A kept \in KeptOf(g), left \in Candidates(g) \ KeptOf(g) :
            ~Before(SortValue(left), SortValue(kept))

\* a gene whose smaller row comes second in the table, and is the one kept
C2_Witness ==
  /\ RankReturned
  /\ call.n = 1
  /\ {"p", "q"} \subseteq df.cols
  /\ \E kept \in KeptOf("PCSK9"), left \in Candidates("PCSK9") :
        /\ Before(kept.q, left.q)
        /\ left.idx < kept.idx
        /\ Before(left.p, kept.p)

-----------------------------------------------------------------------------
(* Properties of the enrichment *)

Enriched == call.fn = "enrich_labels" /\ ~res.raised

\* C5: in the table enrich_labels returns, every row with a non-empty
\* outcome_id has a Description that is neither missing nor empty.
C5_DescriptionNeverEmpty ==
  Enriched =>
    \A i \in 1..Len(res.rows) :
       res.rows[i].outcome_id \notin {NA, ""}
         => res.rows[i].Description \notin {NA, ""}

RECURSIVE FirstNonEmpty(_)
\* the first value of a sequence that is neither missing nor empty
FirstNonEmpty(vs) ==
  IF vs = <<>> THEN NA
  ELSE IF vs[1] \notin {NA, ""} THEN vs[1] ELSE FirstNonEmpty(Tail(vs))

\* the label of outcome o in the catalog the call used: its first non-empty
\* value in the order description, outcome_string, name, label, phenotype
CatalogLabel(o) ==
  FirstNonEmpty([k \in 1..Len(LabelCols) |-> CatalogValue(cache.frame, o, LabelCols[k])])

\* C6: for each row, Description is the first non-empty value among the
\* catalog entry's label, the row's own outcome_string and its outcome_id.
C6_FirstNonEmptyPerRow ==
  Enriched =>
    \A i \in 1..Len(res.rows) :
       res.rows[i].Description =
         FirstNonEmpty(<<CatalogLabel(df.rows[i].outcome_id),
                         df.rows[i].outcome_string,
                         df.rows[i].outcome_id>>)

-----------------------------------------------------------------------------
(* Properties of the tidying *)

Tidied == call.fn = "tidy_table" /\ ~res.raised /\ df.rows # <<>>

IdxSet(rows) == {rows[i].idx : i \in 1..Len(rows)}

\* the index labels of the rows of df that pass the threshold stage of the call
PassingIdx ==
  {r.idx : r \in {x \in RowSet(df.rows) :
                    \/ call.metric \notin df.cols
                    \/ /\ x[call.metric] # NaN
                       /\ x[call.metric] < call.threshold}}

C4_DefaultsKeepEveryRow ==
  (/\ Tidied
   /\ call.metric = DefaultMetric
   /\ call.threshold = DefaultThreshold
   /\ filters = DefaultFilters) =>
     /\ Len(res.rows) = Len(df.rows)
     /\ \A r \in RowSet(df.rows) :
          \E t \in RowSet(res.rows) : t.outcome_id = r.outcome_id

-----------------------------------------------------------------------------
(* Properties of the category filtering *)

Filtered == call.fn = "filter_by_category_desc" /\ ~res.raised

\* the entries of the filters dict that name category c
EntriesOf(c) ==
  {filters.values[k] : k \in {j \in DOMAIN filters.values \cap DOMAIN FILTER_MAP :
                                FILTER_MAP[j] = c}}

\* C8: filter_by_category_desc keeps, unchanged, every row whose category has
\* no entry or a None entry, and keeps a row whose category has a non-empty
\* allow-list iff its Description is exactly one of the listed values; it
\* returns no other row.
C8_OnlyTheNamedCategory ==
  Filtered =>
    /\ RowSet(res.rows) \subseteq RowSet(df.rows)
    /\ \A r \in RowSet(df.rows) :
         /\ (\A e \in EntriesOf(r.analysis_type) : e.none)
              => r \in RowSet(res.rows)
         /\ \A e \in EntriesOf(r.analysis_type) :
              (~e.none /\ e.values # {})
                => (r \in RowSet(res.rows) <=> r.Description \in e.values)

\* C9 as stated: an empty allow-list excludes all rows of its category.
C9_EmptyListExcludesAll ==
  (call.fn \in {"filter_by_category_desc", "prepare_plot_df"} /\ ~res.raised) =>
    \A r \in RowSet(res.rows) : List({}) \notin EntriesOf(r.analysis_type)

\* the filters dict with None in place of every empty allow-list
EmptyAsNone ==
  Dict([k \in DOMAIN filters.values |->
          IF filters.values[k] = List({}) THEN None ELSE filters.values[k]])

\* C9 amended: an empty allow-list does not constrain its category: category
\* filtering keeps every row of that category, and gives the result it gives
\* with a None entry in place of the empty list.
C9_EmptyListKeepsAll ==
  /\ Filtered =>
       /\ \A r \in RowSet(df.rows) :
            EntriesOf(r.analysis_type) \subseteq {None, List({})}
              => r \in RowSet(res.rows)
       /\ res = Returned(filter_by_category_desc(df, EmptyAsNone))
  /\ (call.fn = "prepare_plot_df" /\ ~res.raised) =>
       res \in prepare_plot_df(df, call.metric, call.n, cache.frame, EmptyAsNone)

\* prepare_plot_df with nothing selected for CV_ENDPOINTS and a selection for
\* PHECODES that drops a row: the CV_ENDPOINTS row is in the frame
C9_Witness ==
  /\ call.fn = "prepare_plot_df"
  /\ ~res.raised
  /\ DOMAIN filters.values = {"filter_cv", "filter_phe"}
  /\ filters.values["filter_cv"] = List({})
  /\ \E r \in RowSet(res.rows) : r.analysis_type = KIND_CV
  /\ Len(res.rows) < Len(df.rows)

-----------------------------------------------------------------------------
(* Properties of the catalog requests *)

\* C8 holds of the frames in which no Description is missing (a missing
\* Description is what the enrichment of C5 leaves behind).
C8_HoldsWithDescriptions ==
  (\A r \in RowSet(df.rows) : r.Description # NA) => C8_OnlyTheNamedCategory

\* C10: over any sequence of catalog lookups, label-list requests,
\* enrichments and plot projections in which no request fails, /outcome is
\* requested at most once.
C10_CatalogRequestedAtMostOnce == failures = 0 => fetches <= 1

-----------------------------------------------------------------------------
(* outcome_catalog called by several threads while its cache is empty *)

MaxCallers == 2

Callers == 1..MaxCallers

\* a caller of outcome_catalog: before its call, after the lookup of the
\* lru_cache wrapper missed, after its request returned, after its return
Waiting == [pc |-> "waiting", got |-> NoResult]
Missed == [pc |-> "missed", got |-> NoResult]
Fetched(f) == [pc |-> "fetched", got |-> Returned(f)]
Done(r) == [pc |-> "done", got |-> r]

InitConcurrent ==
  /\ catalog \in AppResponses
  /\ df = EmptyFrame /\ filters = None
  /\ call = NoCall
  /\ res = NoResult
  /\ NoRequests
  /\ genes = <<>> /\ remote = <<>> /\ logs = <<>> /\ draws = 0 /\ runs = <<>>
  /\ dl_msg = DlPrompt
  /\ threads = [c \in Callers |-> Waiting]

\* the wrapper looks the call up: a hit returns the cached frame, a miss
\* goes on to call the function
Lookup(c) ==
  /\ threads[c].pc = "waiting"
  /\ threads' = [threads EXCEPT
                   ![c] = IF cache.full THEN Done(Returned(cache.frame)) ELSE Missed]
  /\ UNCHANGED <<df, catalog, filters, call, res, cache, fetches, failures>>
  /\ UNCHANGED <<genes, remote, logs, draws, runs, dl_msg>>

\* the body of outcome_catalog: the request to /outcome and the frame made
\* of its response; a failed request raises out of the call
Request(c, ok) ==
  /\ threads[c].pc = "missed"
  /\ fetches < MaxFetches
  /\ fetches' = fetches + 1
  /\ failures' = IF ok THEN failures ELSE failures + 1
  /\ threads' = [threads EXCEPT
                   ![c] = IF ok THEN Fetched(CatalogFrame(catalog)) ELSE Done(Raised)]
  /\ UNCHANGED <<df, catalog, filters, call, res, cache>>
  /\ UNCHANGED <<genes, remote, logs, draws, runs, dl_msg>>

\* the wrapper stores the result unless another caller stored one during
\* the call, and returns the caller's own result
Store(c) ==
  /\ threads[c].pc = "fetched"
  /\ cache' = IF cache.full THEN cache
              ELSE Cached(Frame(threads[c].got.cols, threads[c].got.rows))
  /\ threads' = [threads EXCEPT ![c] = Done(threads[c].got)]
  /\ UNCHANGED <<df, catalog, filters, call, res, fetches, failures>>
  /\ UNCHANGED <<genes, remote, logs, draws, runs, dl_msg>>

NextConcurrent ==
  \/ \E c \in Callers : Lookup(c)
  \/ \E c \in Callers, ok \in BOOLEAN : Request(c, ok)
  \/ \E c \in Callers : Store(c)

SpecConcurrent == InitConcurrent /\ [][NextConcurrent]_vars

-----------------------------------------------------------------------------
(* Properties of the concurrent callers *)

\* every caller that returned holds the whole catalog frame, and the cache
\* is empty or holds the whole catalog frame
NoPartialCache ==
  /\ cache.full => cache.frame = CatalogFrame(catalog)
  /\ \A c \in Callers :
       (threads[c].pc = "done" /\ ~threads[c].got.raised)
         => threads[c].got = Returned(CatalogFrame(catalog))

\* C11: when several callers call outcome_catalog while the cache is empty
\* and no request fails, one request to /outcome is made in all, and no
\* caller observes a partially populated cache.
C11_OneFetchForConcurrentCallers ==
  /\ failures = 0 => fetches <= 1
  /\ NoPartialCache

-----------------------------------------------------------------------------
(* Properties of a failed catalog request *)

\* C12: an enrichment or a tidy_table whose catalog request failed still
\* returns, and every row it returns has its outcome_id as Description.
C12_CatalogFailureFallsBack ==
  (call.fn \in {"enrich_labels", "tidy_table"} /\ df.rows # <<>> /\ ~cache.full)
    => /\ ~res.raised
       /\ \A i \in 1..Len(res.rows) : res.rows[i].Description = res.rows[i].outcome_id

-----------------------------------------------------------------------------
(* backend.resolve_gene *)

\* a text is the sequence of its characters; a value that may be None (a
\* JSON null or an absent key, which dict.get turns into None) is Null or
\* Text(t)
Null == [null |-> TRUE, text |-> <<>>]
Text(t) == [null |-> FALSE, text |-> t]

\* the truth value Python gives a value: None and "" are false
Truthy(v) == ~v.null /\ v.text # <<>>

\* a or b
Or(a, b) == IF Truthy(a) THEN a ELSE b

\* str.upper of one character of the model's alphabet
UpperChar(c) ==
  CASE c = "a" -> "A"
    [] c = "b" -> "B"
    [] c = "e" -> "E"
    [] c = "n" -> "N"
    [] c = "s" -> "S"
    [] c = "g" -> "G"
    [] OTHER -> c

Upper(t) == [i \in 1..Len(t) |-> UpperChar(t[i])]

StartsWith(t, prefix) ==
  Len(t) >= Len(prefix) /\ SubSeq(t, 1, Len(prefix)) = prefix

EnsemblPrefix == <<"E", "N", "S", "G">>

\* an answer of the service: the request failed (no connection, an HTTP
\* error status, a body that is not JSON), or its JSON body: a list of items
\* or one item; an item is an object with its ensembl_id and symbol, or a
\* value that is no object
Failure == [ok |-> FALSE, list |-> FALSE, items |-> <<>>]
JsonList(items) == [ok |-> TRUE, list |-> TRUE, items |-> items]
JsonValue(item) == [ok |-> TRUE, list |-> FALSE, items |-> <<item>>]
Object(e, s) == [object |-> TRUE, ensembl_id |-> e, symbol |-> s]
Scalar == [object |-> FALSE, ensembl_id |-> Null, symbol |-> Null]

\* the outcome of a call: a pair, or an exception
Pair(e, s) == [raised |-> FALSE, ensg |-> e, sym |-> s]
Raise == [raised |-> TRUE, ensg |-> Null, sym |-> Null]

\* the try block of resolve_gene
resolve_try(name, answer) ==
  IF ~answer.ok THEN Raise
  ELSE IF StartsWith(Upper(name), EnsemblPrefix)
  THEN IF answer.list \/ ~answer.items[1].object THEN Raise
       ELSE LET j == answer.items[1]
            IN Pair(Or(j.ensembl_id, Text(name)), Or(j.symbol, Text(name)))
  ELSE IF answer.list /\ answer.items = <<>> THEN Pair(Null, Null)
  ELSE LET j == answer.items[1]
       IN IF ~j.object THEN Raise
          ELSE Pair(j.ensembl_id, Or(j.symbol, Text(name)))

\* except Exception: return (None, None)
Caught(r) == IF r.raised THEN Pair(Null, Null) ELSE r

resolve_gene(name, answer) == Caught(resolve_try(name, answer))

-----------------------------------------------------------------------------
(* Resolution: resolve_gene applied to a name and an answer of the service *)

MaxItems == 2

ENSG1 == <<"E", "N", "S", "G", "1">>

Names == {<<"A">>, <<"a">>, ENSG1, <<"e", "n", "s", "g", "1">>, <<"E", "N", "S">>}

Items ==
  {Scalar} \cup
  {Object(e, s) : e \in {Null, Text(<<>>), Text(ENSG1)},
                  s \in {Null, Text(<<>>), Text(<<"A">>)}}

GeneAnswers ==
  {Failure} \cup {JsonValue(i) : i \in Items}
  \cup UNION {{JsonList(is) : is \in [1..k -> Items]} : k \in 0..MaxItems}

InitResolve ==
  /\ df = EmptyFrame /\ Quiet
  /\ call = NoCall
  /\ res = NoResult
  /\ logs = <<>> /\ threads = <<>> /\ draws = 0 /\ runs = <<>>
  /\ dl_msg = DlPrompt
  /\ genes \in Names
  /\ remote \in GeneAnswers

Resolve ==
  /\ call.fn = "none"
  /\ call' = [NoCall EXCEPT !.fn = "resolve_gene"]
  /\ res' = resolve_gene(genes, remote)
  /\ UNCHANGED <<df, catalog, filters, cache, fetches, failures>>
  /\ UNCHANGED ioVars

NextResolve == Resolve

SpecResolve == InitResolve /\ [][NextResolve]_vars

-----------------------------------------------------------------------------
(* Properties of the resolution *)

\* C13: resolve_gene never raises, and it returns (None, None) or a pair
\* whose first component is a non-empty identifier.
C13_NonePairOrIdentifier ==
  call.fn = "resolve_gene" =>
    /\ ~res.raised
    /\ res = Pair(Null, Null) \/ Truthy(res.ensg)

\* the part of C13 that holds: no exception leaves resolve_gene
ResolveNeverRaises == call.fn = "resolve_gene" => ~res.raised

-----------------------------------------------------------------------------
(* backend.parse_gene_list *)

\* the line boundaries of str.splitlines and the white space of str.strip
\* among the characters of the model
LineBreaks == {"\n", "\r"}
WhiteSpace == {" ", "\n", "\r"}

\* text.replace(",", "\n")
Replace(t) == [i \in 1..Len(t) |-> IF t[i] = "," THEN "\n" ELSE t[i]]

RECURSIVE LinesFrom(_, _)
\* the lines of t after the begun line cur: a line ends at a line boundary
\* ("\r\n" is one boundary), and an empty last line is not a line
LinesFrom(t, cur) ==
  IF t = <<>> THEN (IF cur = <<>> THEN <<>> ELSE <<cur>>)
  ELSE IF t[1] \in LineBreaks
  THEN LET rest == IF t[1] = "\r" /\ Len(t) >= 2 /\ t[2] = "\n"
                   THEN SubSeq(t, 3, Len(t)) ELSE Tail(t)
       IN <<cur>> \o LinesFrom(rest, <<>>)
  ELSE LinesFrom(Tail(t), Append(cur, t[1]))

\* str.splitlines
SplitLines(t) == LinesFrom(t, <<>>)

RECURSIVE LStrip(_)
LStrip(t) == IF t # <<>> /\ t[1] \in WhiteSpace THEN LStrip(Tail(t)) ELSE t

RECURSIVE RStrip(_)
RStrip(t) ==
  IF t # <<>> /\ t[Len(t)] \in WhiteSpace THEN RStrip(SubSeq(t, 1, Len(t) - 1)) ELSE t

StripLeftOnly(t) == LStrip(t)

\* str.strip
Strip(t) == RStrip(LStrip(t))

parse_gene_list(text) ==
  IF text = <<>> THEN <<>>
  ELSE LET lines == SplitLines(Replace(text))
           kept == SelectSeq(lines, LAMBDA ln : Strip(ln) # <<>>)
       IN [i \in 1..Len(kept) |-> Upper(Strip(kept[i]))]

-----------------------------------------------------------------------------
(* Parsing: parse_gene_list applied to the texts of the gene input *)

MaxLen == 4

Alphabet == {"a", "B", ",", "\n", "\r", " "}

Texts == UNION {[1..k -> Alphabet] : k \in 0..MaxLen}

Parsed(tokens) == [raised |-> FALSE, tokens |-> tokens]

InitParse ==
  /\ df = EmptyFrame /\ Quiet
  /\ call = NoCall
  /\ res = NoResult
  /\ remote = <<>> /\ logs = <<>> /\ threads = <<>> /\ draws = 0 /\ runs = <<>>
  /\ dl_msg = DlPrompt
  /\ genes \in Texts

Parse ==
  /\ call.fn = "none"
  /\ call' = [NoCall EXCEPT !.fn = "parse_gene_list"]
  /\ res' = Parsed(parse_gene_list(genes))
  /\ UNCHANGED <<df, catalog, filters, cache, fetches, failures>>
  /\ UNCHANGED ioVars

NextParse == Parse

SpecParse == InitParse /\ [][NextParse]_vars

-----------------------------------------------------------------------------
(* Properties of the parsing *)

\* the separators of the gene list: the comma and the line breaks
Separators == {","} \cup LineBreaks

\* the positions of the separators of t, with the positions before and
\* after the text
Cuts(t) == {0, Len(t) + 1} \cup {i \in 1..Len(t) : t[i] \in Separators}

\* the piece of t between the cut a and the next cut
Piece(t, a) ==
  LET b == CHOOSE j \in Cuts(t) : j > a /\ \A k \in Cuts(t) : k > a => j <= k
  IN SubSeq(t, a + 1, b - 1)

\* the positions of s that hold no blank
Inked(s) == {i \in 1..Len(s) : s[i] # " "}

\* s without the blanks before its first and after its last other character
Trimmed(s) ==
  IF Inked(s) = {} THEN <<>>
  ELSE SubSeq(s, CHOOSE i \in Inked(s) : \A j \in Inked(s) : i <= j,
                 CHOOSE i \in Inked(s) : \A j \in Inked(s) : i >= j)

\* the cuts of t that a non-blank piece follows
TokenStarts(t) == {a \in Cuts(t) \ {Len(t) + 1} : Inked(Piece(t, a)) # {}}

\* C20: parse_gene_list returns the non-blank pieces of the text between
\* commas and line breaks, in their order, each trimmed and in upper case;
\* a text without such a piece gives the empty list.
C20_TokensInOrder ==
  call.fn = "parse_gene_list" =>
    /\ ~res.raised
    /\ Len(res.tokens) = Cardinality(TokenStarts(genes))
    /\ \A a \in TokenStarts(genes) :
         res.tokens[Cardinality({b \in TokenStarts(genes) : b <= a})]
           = Upper(Trimmed(Piece(genes, a)))

\* a text with a comma, a line break, blanks and a lower-case letter parsed
\* into two tokens
C20_Witness ==
  /\ call.fn = "parse_gene_list"
  /\ genes = <<"a", " ", ",", "B">>
  /\ res.tokens = <<<<"A">>, <<"B">>>>

-----------------------------------------------------------------------------
(* backend.fetch_gene_results and app.load_phenos *)

\* the JSON body of a results answer: the rows in an object under "results",
\* or the bare list of rows
Results(rows) == [ok |-> TRUE, wrapped |-> TRUE, rows |-> rows]
Rows(rows) == [ok |-> TRUE, wrapped |-> FALSE, rows |-> rows]
NoAnswer == [ok |-> FALSE, wrapped |-> FALSE, rows |-> <<>>]

\* the columns of the frame pd.DataFrame makes of the rows of the service
ResultCols(rows) == IF rows = <<>> THEN {} ELSE {"analysis_type", "outcome_id", "p"}

\* fetch_gene_results: raises when the request fails, else the frame of the
\* rows of the answer
fetch_gene_results(answer) ==
  IF ~answer.ok THEN Raised
  ELSE Returned(Frame(ResultCols(answer.rows), Reindexed(answer.rows)))

\* a line of the log window
Msg(kind, gene, n) == [kind |-> kind, gene |-> gene, n |-> n]

Nothing == [frames |-> <<>>, logs |-> <<>>]

ReplaceLog(old, msg) == <<msg>>

\* _log(msg): logs.set((logs.get() or "") + msg + "\n"), on the lines old
AppendLog(old, msg) == Append(old, msg)

RECURSIVE LogAll(_, _)
\* the lines msgs logged one after the other
LogAll(old, msgs) ==
  IF msgs = <<>> THEN old ELSE LogAll(AppendLog(old, msgs[1]), Tail(msgs))

\* one turn of the loop of load_phenos for token g: the frames it appends
\* and the lines it logs
LoadOne(g, rem) ==
  LET pair == resolve_gene(g, rem.resolve[g])
      r == fetch_gene_results(rem.fetch[pair.ensg.text])
  IN IF ~Truthy(pair.ensg)
     THEN [Nothing EXCEPT !.logs = <<Msg("skipping", g, 0)>>]
     ELSE IF r.raised
     THEN [Nothing EXCEPT !.logs = <<Msg("error", pair.sym.text, 0)>>]
     ELSE IF r.rows = <<>>
     THEN [Nothing EXCEPT !.logs = <<Msg("no results", pair.sym.text, 0)>>]
     ELSE [frames |-> <<Frame(r.cols \cup {"gene"},
                              [i \in 1..Len(r.rows) |->
                                 [r.rows[i] EXCEPT !.gene = pair.sym.text]])>>,
           logs |-> <<Msg("rows", pair.sym.text, Len(r.rows))>>]

RemainingUntilFailure(tokens, turn) ==
  IF turn.frames = <<>> THEN <<>> ELSE Tail(tokens)

\* the tokens the loop goes on with after a turn: continue, whatever the
\* turn did
Remaining(tokens, turn) == Tail(tokens)

RECURSIVE LoadAll(_, _)
\* the loop over the tokens
LoadAll(tokens, rem) ==
  IF tokens = <<>> THEN Nothing
  ELSE LET turn == LoadOne(tokens[1], rem)
           rest == LoadAll(Remaining(tokens, turn), rem)
       IN [frames |-> turn.frames \o rest.frames, logs |-> turn.logs \o rest.logs]

RECURSIVE Concat(_)
\* pd.concat(frames, ignore_index=True)
Concat(frames) ==
  IF frames = <<>> THEN EmptyFrame
  ELSE LET rest == Concat(Tail(frames))
       IN Frame(frames[1].cols \cup rest.cols, Reindexed(frames[1].rows \o rest.rows))

Merged(old, new) == Frame(old.cols \cup new.cols, Reindexed(old.rows \o new.rows))

\* df_results.set(new)
Stored(old, new) == new

\* load_phenos with the text of the gene input, while the service answers
\* as rem tells
LoadPhenos(text, rem) ==
  LET tokens == parse_gene_list(text)
      loaded == LoadAll(tokens, rem)
  IN /\ genes' = text
     /\ remote' = rem
     /\ call' = [NoCall EXCEPT !.fn = "load_phenos"]
     /\ IF tokens = <<>>
        THEN /\ logs' = AppendLog(logs, Msg("enter a gene", <<>>, 0))
             /\ df' = Stored(df, EmptyFrame)
        ELSE IF loaded.frames # <<>>
        THEN /\ df' = Stored(df, Concat(loaded.frames))
             /\ logs' = AppendLog(LogAll(logs, loaded.logs),
                          Msg("total", <<>>, Len(Concat(loaded.frames).rows)))
        ELSE /\ df' = Stored(df, EmptyFrame)
             /\ logs' = AppendLog(LogAll(logs, loaded.logs), Msg("no data", <<>>, 0))
     /\ UNCHANGED <<catalog, filters, res, cache, fetches, failures>>
     /\ UNCHANGED <<threads, draws, runs, dl_msg>>

-----------------------------------------------------------------------------
(* Loading: one load of a list of gene tokens *)

MaxTokens == 2

LoadNames == {<<"A">>, <<"B">>}

GeneId(name) == <<"G">> \o name

\* the texts of the gene input: up to MaxTokens names in either case, with
\* commas, line breaks and blanks between them
Typed == {<<"a">>, <<"B">>}
Between == {<<",">>, <<"\n", " ">>}

RECURSIVE Joined(_)
Joined(k) ==
  IF k = 0 THEN {<<>>}
  ELSE IF k = 1 THEN Typed
  ELSE {t \o s \o n : t \in Joined(k - 1), s \in Between, n \in Typed}

LoadTexts == {<<" ">>} \cup UNION {Joined(k) : k \in 0..MaxTokens}

ResultRow(o) == Row(0, NA, KIND_CONT, o, 1, NaN, NA)

ResolveAnswers(name) ==
  {Failure, JsonList(<<>>), JsonList(<<Object(Text(GeneId(name)), Text(name))>>)}

FetchAnswers ==
  {NoAnswer, Results(<<>>), Results(<<ResultRow("O1")>>),
   Rows(<<ResultRow("O1"), ResultRow("O9")>>)}

\* the answers of the service during one load; an identifier that is none
\* of a gene (the text of None) has no results
Remotes ==
  {[resolve |-> rs, fetch |-> [e \in {GeneId(n) : n \in LoadNames} \cup {<<>>} |->
                                 IF e = <<>> THEN NoAnswer ELSE fs[e]]] :
     rs \in {f \in [LoadNames -> UNION {ResolveAnswers(n) : n \in LoadNames}] :
               \A n \in LoadNames : f[n] \in ResolveAnswers(n)},
     fs \in [{GeneId(n) : n \in LoadNames} -> FetchAnswers]}

InitLoad ==
  /\ df = EmptyFrame /\ Quiet
  /\ call = NoCall
  /\ res = NoResult
  /\ IoIdle

Load(text, rem) == call.fn = "none" /\ LoadPhenos(text, rem)

NextLoad == \E text \in LoadTexts, rem \in Remotes : Load(text, rem)

SpecLoad == InitLoad /\ [][NextLoad]_vars

-----------------------------------------------------------------------------
(* Properties of the loading *)

\* the tokens of the text of the last load
Tokens == parse_gene_list(genes)

\* the service knows token g: it answers the name with a list whose first
\* item has an identifier
Known(g) ==
  LET a == remote.resolve[g]
  IN a.ok /\ a.items # <<>> /\ a.items[1].object /\ Truthy(a.items[1].ensembl_id)

\* the rows the service has for token g, none when it does not know g or
\* the results request fails
ServedRows(g) ==
  IF ~Known(g) THEN <<>>
  ELSE LET item == remote.resolve[g].items[1]
           a == remote.fetch[item.ensembl_id.text]
       IN IF ~a.ok THEN <<>>
          ELSE [i \in 1..Len(a.rows) |-> [a.rows[i] EXCEPT !.gene = item.symbol.text]]

RECURSIVE ServedTo(_)
\* the rows the service has for the tokens ts, in the order of the tokens
ServedTo(ts) == IF ts = <<>> THEN <<>> ELSE ServedRows(ts[1]) \o ServedTo(Tail(ts))

\* C14: after a load the result set holds the rows of exactly the tokens
\* that resolved and fetched rows, in the order of the tokens, wherever the
\* failing tokens stand in the list; every token has its line in the log,
\* and the line of a failing token is none of a success.
C14_FailuresSkippedOthersLoaded ==
  call.fn = "load_phenos" =>
    /\ Len(df.rows) = Len(ServedTo(Tokens))
    /\ \A i \in 1..Len(df.rows) : df.rows[i] = [ServedTo(Tokens)[i] EXCEPT !.idx = i - 1]
    /\ Tokens # <<>> =>
         /\ Len(logs) = Len(Tokens) + 1
         /\ \A i \in 1..Len(Tokens) :
              logs[i].kind = "rows" <=> ServedRows(Tokens[i]) # <<>>

\* a load of two tokens of which the first fails and the second has rows
C14_Witness ==
  /\ call.fn = "load_phenos"
  /\ Len(Tokens) = 2
  /\ logs[1].kind \in {"skipping", "error"}
  /\ logs[2].kind = "rows"
  /\ df.rows # <<>>

-----------------------------------------------------------------------------
(* Reloading: loads one after the other *)

MaxLoads == 2

\* the loads made so far: each load ends with one closing line of the log
Closing == {"enter a gene", "total", "no data"}
Loads == Cardinality({i \in 1..Len(logs) : logs[i].kind \in Closing})

\* the texts of the reloads: no token, one name, both names
ReloadTexts == {<<>>, <<"a">>, <<"B">>, <<"a", ",", "B">>}

\* the answers of the service during a reload: a name is unknown or found,
\* its results fail, are empty or hold a row
ReloadRemotes ==
  {rem \in Remotes :
     /\ \A n \in LoadNames : rem.resolve[n] # Failure
     /\ \A n \in LoadNames : rem.fetch[GeneId(n)] \in
          {NoAnswer, Results(<<>>), Results(<<ResultRow("O1")>>)}}

InitReload == InitLoad

Reload(text, rem) == Loads < MaxLoads /\ LoadPhenos(text, rem)

NextReload == \E text \in ReloadTexts, rem \in ReloadRemotes : Reload(text, rem)

SpecReload == InitReload /\ [][NextReload]_vars

-----------------------------------------------------------------------------
(* Properties of the reloading *)

\* C15: after any sequence of loads the stored table holds the rows of the
\* most recent load and no other; it is empty when that load had no tokens
\* or yielded no rows.
C15_LastLoadReplaces ==
  call.fn = "load_phenos" =>
    /\ Len(df.rows) = Len(ServedTo(Tokens))
    /\ \A i \in 1..Len(df.rows) : df.rows[i] = [ServedTo(Tokens)[i] EXCEPT !.idx = i - 1]
    /\ ServedTo(Tokens) = <<>> => df = EmptyFrame

\* a second load that yields nothing after a first that stored rows
C15_Witness ==
  /\ call.fn = "load_phenos"
  /\ Loads = 2
  /\ \E i \in 1..Len(logs) : logs[i].kind = "total" /\ logs[i].n > 0
  /\ logs[Len(logs)].kind \in {"no data", "enter a gene"}
  /\ df = EmptyFrame

-----------------------------------------------------------------------------
(* Empty-result conditions: tables without rows, without the category or a
   metric column, or with rows that no stage keeps *)

\* the rows of a table with the columns cols: of a recognized or another
\* category, with or without a p value
SparseRows(cols) ==
  {Row(0, "PCSK9", k, "O1", pv, qv, NA) :
     k \in (IF "analysis_type" \in cols THEN {KIND_CONT, "OTHER_KIND"} ELSE {NA}),
     pv \in (IF "p" \in cols THEN {NaN, 1} ELSE {NaN}),
     qv \in (IF "q" \in cols THEN {1} ELSE {NaN})}

InitSparse ==
  /\ \/ df = EmptyFrame
     \/ \E some \in SUBSET {"analysis_type", "p", "q"}, k \in 0..MaxLabelRows :
          \E rs \in [1..k -> SparseRows(some)] :
             df = Frame({"gene", "outcome_id"} \cup some, Reindexed(rs))
  /\ catalog = ResponseFrame({CatalogEntry("O1", NoLabels)})
  /\ filters = None
  /\ call = NoCall
  /\ res = NoResult
  /\ IoIdle
  /\ NoRequests

NextSparse ==
  \/ \E n \in 1..MaxN : TopN(KIND_CONT, n)
  \/ \E metric \in {"p", "q"}, limit \in 1..MaxN : PreparePlot(metric, limit)

SpecSparse == InitSparse /\ [][NextSparse]_vars

-----------------------------------------------------------------------------
(* Properties of the empty-result conditions *)

\* the table of the call is empty, or lacks the category column, or lacks
\* the metric column the projection was asked for
EmptyCondition ==
  \/ df.rows = <<>>
  \/ "analysis_type" \notin df.cols
  \/ call.fn = "prepare_plot_df" /\ call.metric \notin df.cols

\* C16: top_n_per_gene and prepare_plot_df never raise, and on an
\* empty-result condition they return a frame without rows.
C16_EmptyConditionsNeverRaise ==
  call.fn \in {"top_n_per_gene", "prepare_plot_df"} =>
    /\ ~res.raised
    /\ EmptyCondition => res.rows = <<>>

-----------------------------------------------------------------------------
(* Limits: top_n_per_gene and prepare_plot_df with limits of any sign *)

\* int(n) of a number given in halves: the fraction is cut off towards zero
IntOf(halves) == IF halves >= 0 THEN halves \div 2 ELSE -((-halves) \div 2)

\* the limits, in halves: from -MaxN to MaxN
RawLimits == (-2 * MaxN)..(2 * MaxN)

LimitRows ==
  {Row(0, g, k, "O1", pv, NaN, NA) : g \in Genes, k \in RankKinds, pv \in {1, 2}}

InitLimit ==
  /\ \E k \in 0..MaxLabelRows :
       \E rs \in [1..k -> LimitRows] :
          df = Frame(BaseCols \cup {"p"}, Reindexed(rs))
  /\ catalog = ResponseFrame({CatalogEntry("O1", NoLabels)})
  /\ filters = None
  /\ call = NoCall
  /\ res = NoResult
  /\ IoIdle
  /\ NoRequests

NextLimit ==
  \/ \E k \in RankKinds, raw \in RawLimits : TopN(k, IntOf(raw))
  \/ \E raw \in RawLimits : PreparePlot("p", IntOf(raw))

SpecLimit == InitLimit /\ [][NextLimit]_vars

-----------------------------------------------------------------------------
(* Properties of the limits *)

\* C17: with a limit whose integer part is zero or negative, top_n_per_gene
\* and prepare_plot_df return what they return with the limit 1.
C17_NonPositiveLimitIsOne ==
  /\ (call.fn = "top_n_per_gene" /\ call.n <= 0) =>
       /\ top_n_per_gene(df, call.kind, call.n) = top_n_per_gene(df, call.kind, 1)
       /\ res \in top_n_per_gene(df, call.kind, 1)
  /\ (call.fn = "prepare_plot_df" /\ call.n <= 0) =>
       /\ prepare_plot_df(df, call.metric, call.n, cache.frame, filters)
            = prepare_plot_df(df, call.metric, 1, cache.frame, filters)
       /\ res \in prepare_plot_df(df, call.metric, 1, cache.frame, filters)

\* a negative limit under which one row of a gene with two rows is kept
C17_Witness ==
  /\ call.fn = "top_n_per_gene"
  /\ call.n < 0
  /\ Len(res.rows) = 1
  /\ Len(df.rows) = 2
  /\ df.rows[1].gene = df.rows[2].gene
  /\ df.rows[1].analysis_type = df.rows[2].analysis_type

-----------------------------------------------------------------------------
(* plotting.apply_scale *)

\* A float of a plot frame is zero, a power of ten 10^(-e) written Pow(e),
\* NaN or infinity; a logarithm is the number Log(e) = e.
Zero == [kind |-> "zero", e |-> 0]
Pow(e) == [kind |-> "pow", e |-> e]
Log(e) == [kind |-> "log", e |-> e]
NotANumber == [kind |-> "nan", e |-> 0]
Infinity == [kind |-> "inf", e |-> 0]

\* eps = 1e-300 is 10^(-EpsExponent)
EpsExponent == 300

ClipCeilingOnly(v, floor) ==
  IF v.kind = "pow" /\ v.e < 0 THEN Pow(0)
  ELSE IF v.kind = "inf" THEN Pow(0)
  ELSE v

\* np.clip(v, eps, 1.0) with eps = 10^(-floor); NaN stays NaN
Clip(v, floor) ==
  CASE v.kind = "nan" -> v
    [] v.kind = "zero" -> Pow(floor)
    [] v.kind = "inf" -> Pow(0)
    [] v.kind = "pow" -> IF v.e > floor THEN Pow(floor)
                         ELSE IF v.e < 0 THEN Pow(0)
                         ELSE v
    [] OTHER -> v

\* -np.log10(v) under np.errstate(divide="ignore", invalid="ignore")
NegLog10(v) ==
  CASE v.kind = "zero" -> Infinity
    [] v.kind = "pow" -> Log(v.e)
    [] v.kind = "inf" -> [Infinity EXCEPT !.kind = "-inf"]
    [] OTHER -> NotANumber

\* a row of a plot frame
PlotRow(i, xv, v) == [idx |-> i, x |-> xv, vals |-> v, y |-> NotANumber, xj |-> NaN]

\* apply_scale(df, use_log, metric): an empty frame is returned as it is,
\* else the frame gets the column _y
apply_scale(f, use_log) ==
  IF f.rows = <<>> THEN f
  ELSE Frame(f.cols \cup {"_y"},
             [i \in 1..Len(f.rows) |->
                [f.rows[i] EXCEPT !.y = IF use_log
                                        THEN NegLog10(Clip(f.rows[i].vals, EpsExponent))
                                        ELSE Clip(f.rows[i].vals, EpsExponent)]])

-----------------------------------------------------------------------------
(* Scaling: apply_scale applied to plot frames *)

MaxPlotRows == 2

\* the metric values: zero, 1, 0.1, values about eps and below it, a value
\* above 1, NaN
PlotValues ==
  {Zero, NotANumber} \cup
  {Pow(e) : e \in {-1, 0, 1, EpsExponent - 1, EpsExponent, EpsExponent + 1}}

PlotCols == {"gene", "analysis_type", "x", "_vals"}

InitScale ==
  /\ \E k \in 0..MaxPlotRows :
       \E vs \in [1..k -> PlotValues] :
          df = Frame(PlotCols, [i \in 1..k |-> PlotRow(i - 1, 0, vs[i])])
  /\ Quiet
  /\ call = NoCall
  /\ res = NoResult
  /\ IoIdle

\* apply_scale writes _y into the frame it was given and returns it
ApplyScale(use_log) ==
  /\ call.fn = "none"
  /\ call' = [NoCall EXCEPT !.fn = "apply_scale", !.use_log = use_log]
  /\ df' = apply_scale(df, use_log)
  /\ res' = Returned(df')
  /\ UNCHANGED <<catalog, filters, cache, fetches, failures>>
  /\ UNCHANGED ioVars

NextScale == \E use_log \in BOOLEAN : ApplyScale(use_log)

SpecScale == InitScale /\ [][NextScale]_vars

-----------------------------------------------------------------------------
(* Properties of the scaling *)

\* the value lies in [0, 1]
InUnitInterval(v) == v.kind = "zero" \/ (v.kind = "pow" /\ v.e >= 0)

\* C18: for every metric value in [0, 1], _y is the value clipped into
\* [1e-300, 1], or with use_log its -log10, a number from 0 to 300; for the
\* value 0 with use_log it is -log10(1e-300) = 300; it is never infinite
\* and never NaN.
C18_ClippedBeforeLog ==
  call.fn = "apply_scale" =>
    \A i \in 1..Len(res.rows) :
       InUnitInterval(res.rows[i].vals) =>
         /\ res.rows[i].y.kind = (IF call.use_log THEN "log" ELSE "pow")
         /\ res.rows[i].y.e >= 0 /\ res.rows[i].y.e <= EpsExponent
         /\ (call.use_log /\ res.rows[i].vals = Zero) => res.rows[i].y = Log(EpsExponent)

\* a frame with a zero metric value scaled with use_log
C18_Witness ==
  /\ call.fn = "apply_scale"
  /\ call.use_log
  /\ \E i \in 1..Len(res.rows) : res.rows[i].vals = Zero /\ res.rows[i].y = Log(EpsExponent)

-----------------------------------------------------------------------------
(* plotting.add_jitter *)

\* the k-th variate rng.normal(0, sd) gives a generator seeded with seed,
\* in thousandths: a fixed function of the seed and the position
Variate(seed, k) == (((seed + 3) * (k * k + 5 * k)) % 91) - 45

StreamPositionShared(drawn) == drawn

\* np.random.default_rng(seed) makes a new generator in every call: its
\* stream starts at the first variate, however many were drawn before
StreamPosition(drawn) == 0

\* add_jitter(df, seed, sd) after drawn variates were drawn in the process:
\* an empty frame is returned as it is, else the frame gets the column _xj
\* (in thousandths)
add_jitter(f, seed, drawn) ==
  IF f.rows = <<>> THEN f
  ELSE Frame(f.cols \cup {"_xj"},
             [i \in 1..Len(f.rows) |->
                [f.rows[i] EXCEPT
                   !.xj = 1000 * f.rows[i].x + Variate(seed, StreamPosition(drawn) + i)]])

-----------------------------------------------------------------------------
(* Jitter: add_jitter applied to plot frames, run after run *)

MaxRuns == 3

Seeds == {0, 1}

\* the x positions of the rows of the plot frames
Positions == UNION {[1..k -> {0, 1}] : k \in 0..MaxPlotRows}

PlotFrame(xs) == Frame(PlotCols, [i \in 1..Len(xs) |-> PlotRow(i - 1, xs[i], Pow(1))])

InitJitter ==
  /\ df = EmptyFrame /\ Quiet
  /\ call = NoCall
  /\ res = NoResult
  /\ IoIdle

\* a run of add_jitter on the frame with the x positions xs
AddJitter(xs, seed) ==
  /\ Len(runs) < MaxRuns
  /\ call' = [NoCall EXCEPT !.fn = "add_jitter", !.seed = seed]
  /\ df' = add_jitter(PlotFrame(xs), seed, draws)
  /\ res' = Returned(df')
  /\ draws' = draws + Len(xs)
  /\ runs' = Append(runs, [x |-> xs, seed |-> seed,
                           xj |-> [i \in 1..Len(xs) |-> df'.rows[i].xj]])
  /\ UNCHANGED <<catalog, filters, cache, fetches, failures>>
  /\ UNCHANGED <<genes, remote, logs, threads, dl_msg>>

NextJitter == \E xs \in Positions, seed \in Seeds : AddJitter(xs, seed)

SpecJitter == InitJitter /\ [][NextJitter]_vars

-----------------------------------------------------------------------------
(* Properties of the jitter *)

\* C19: two runs of add_jitter with seed 0 on frames with the same rows in
\* the same order give the same _xj column, whatever ran in between.
C19_SameSeedSameJitter ==
  \A i, j \in 1..Len(runs) :
     (runs[i].seed = 0 /\ runs[j].seed = 0 /\ runs[i].x = runs[j].x)
       => runs[i].xj = runs[j].xj

\* two runs with seed 0 on the same frame of two rows, with a run on another
\* frame between them
C19_Witness ==
  /\ Len(runs) = 3
  /\ runs[1].seed = 0 /\ runs[3].seed = 0
  /\ runs[1].x = runs[3].x /\ Len(runs[1].x) = 2
  /\ runs[2].x # runs[1].x /\ runs[2].x # <<>>
  /\ runs[1].xj = runs[3].xj

-----------------------------------------------------------------------------
(* Ties in the ranking *)

\* two rows have the same value in every column top_n_per_gene sorts by
TieOnSortCols(r1, r2) ==
  \A c \in {"q", "p"} \cap df.cols : Field(r1, c) = Field(r2, c)

\* C21: in the result of top_n_per_gene, rows of one gene that tie on the
\* sort metric keep their relative order from the input table.
C21_TiesKeepInputOrder ==
  RankReturned =>
    \A i, j \in 1..Len(res.rows) :
       (/\ i < j
        /\ res.rows[i].gene = res.rows[j].gene
        /\ TieOnSortCols(res.rows[i], res.rows[j]))
         => res.rows[i].idx < res.rows[j].idx

-----------------------------------------------------------------------------
(* Plot ranking: prepare_plot_df on result tables with rows of known and   *)
(* unknown categories and with missing metrics, and top_n_per_gene on the  *)
(* rows of the same table that have the metric                             *)

PlotKinds == {KIND_CONT, KIND_PHE, "OTHER"}

\* the (q, p) pairs of the rows: each of the two can be missing
PlotPairs(cols) ==
  IF "q" \in cols THEN {<<1, 2>>, <<NaN, 1>>, <<1, NaN>>}
  ELSE {<<NaN, m>> : m \in Metrics}

PlotTableRows(cols) ==
  {Row(0, "PCSK9", k, "O1", qp[2], qp[1], NA) :
     k \in PlotKinds, qp \in PlotPairs(cols)}

\* the panel of PHECODES is off, or holds a selection
PlotFilters == {None, Dict([k \in {"filter_phe"} |-> List({"O1"})])}

InitPlot ==
  /\ \E qs \in SUBSET {"q"}, k \in 0..MaxRows :
       \E rs \in [1..k -> PlotTableRows(qs)] :
          df = Frame(BaseCols \cup {"p"} \cup qs, Reindexed(rs))
  /\ catalog = ResponseFrame({CatalogEntry("O1", NoLabels)})
  /\ filters \in PlotFilters
  /\ call = NoCall
  /\ res = NoResult
  /\ IoIdle
  /\ NoRequests

\* df[df[metric].notna()]: the rows that have the metric, under their labels
ValidMetricRows(f, metric) ==
  Frame(f.cols, SelectSeq(f.rows, LAMBDA r : Field(r, metric) # NaN))

\* top_n_per_gene(valid, k, limit) for the table, metric and limit of the
\* prepare_plot_df call before it, whose result is kept in runs
TopNOfValid(k) ==
  /\ call.fn = "prepare_plot_df"
  /\ ~res.raised
  /\ runs = <<>>
  /\ runs' = <<res>>
  /\ call' = [call EXCEPT !.fn = "top_n_per_gene", !.kind = k]
  /\ res' \in top_n_per_gene(ValidMetricRows(df, call.metric), k, call.n)
  /\ UNCHANGED <<df, catalog, filters, cache, fetches, failures>>
  /\ UNCHANGED <<genes, remote, logs, threads, draws, dl_msg>>

NextPlot ==
  \/ \E metric \in {"p", "q"}, limit \in 1..MaxN : PreparePlot(metric, limit)
  \/ \E k \in {KIND_CONT, KIND_PHE} : TopNOfValid(k)

SpecPlot == InitPlot /\ [][NextPlot]_vars

\* the index labels of the rows of category k in a sequence of rows
LabelsOfKind(rows, k) ==
  {rows[i].idx : i \in {j \in 1..Len(rows) : rows[j].analysis_type = k}}

BothRanked ==
  /\ call.fn = "top_n_per_gene"
  /\ Len(runs) = 1
  /\ ~res.raised
  /\ filters = None

PlotRankingAgreesOnStableSort ==
  (BothRanked /\ "q" \in df.cols) =>
    LabelsOfKind(runs[1].rows, call.kind) = LabelsOfKind(res.rows, call.kind)

PlotReturned == call.fn = "prepare_plot_df" /\ ~res.raised

\* C23: every row of every frame prepare_plot_df returns has a value of the
\* selected metric, an analysis_type that is one of the four recognized
\* categories, and x equal to the fixed position of that category
\* (CONTINUOUS_VARIABLE 0, CV_ENDPOINTS 1, SELF_REPORTED 2, PHECODES 3).
C23_PlotRowsValid ==
  PlotReturned =>
    \A i \in 1..Len(res.rows) :
       LET r == res.rows[i]
       IN /\ Field(r, call.metric) # NaN
          /\ \/ r.analysis_type = "CONTINUOUS_VARIABLE" /\ r.x = 0
             \/ r.analysis_type = "CV_ENDPOINTS" /\ r.x = 1
             \/ r.analysis_type = "SELF_REPORTED" /\ r.x = 2
             \/ r.analysis_type = "PHECODES" /\ r.x = 3

\* a table with a row without the metric, a row of an unknown category and a
\* PHECODES row with the metric: only the last is returned, at x = 3
C23_Witness ==
  /\ PlotReturned
  /\ Len(df.rows) = 3
  /\ \E i \in 1..3 : Field(df.rows[i], call.metric) = NaN
  /\ \E i \in 1..3 : df.rows[i].analysis_type = "OTHER"
                     /\ Field(df.rows[i], call.metric) # NaN
  /\ Len(res.rows) = 1
  /\ res.rows[1].analysis_type = KIND_PHE
  /\ res.rows[1].x = 3

-----------------------------------------------------------------------------
(* app._tbl and app.prepared_df / app.plot_out: the table of a category    *)
(* and the plot of one loaded result set                                   *)

\* _tbl(kind, flt) under the inputs metric, threshold and limit, with cat the
\* frame outcome_catalog() returns: the results it can give
tbl(f, cat, kind, flt, metric, threshold, limit) ==
  IF f.rows = <<>> THEN {tidy_table(EmptyFrame, cat, metric, threshold, None)}
  ELSE {IF sub.raised THEN Raised
        ELSE tidy_table(Frame(sub.cols, sub.rows), cat, metric, threshold, flt) :
        sub \in top_n_per_gene(f, kind, limit)}

\* _filter_for_p_or_q_value(df), the value of prepared_df()
prepared_df(f, metric, threshold) == ThresholdRows(f, metric, threshold)

\* the filters dict of plot_out when no category panel is on
NoPanels == Dict([k \in DOMAIN FILTER_MAP |-> None])

\* the frame d of plot_out (lines 233-277): no frame is made of an empty
\* prepared_df
plot_out(f, cat, flt, metric, threshold, limit) ==
  LET prepared == prepared_df(f, metric, threshold)
  IN IF prepared.rows = <<>> THEN {Returned(EmptyFrame)}
     ELSE prepare_plot_df(prepared, metric, Max(1, limit), cat, flt)

\* tidy_table asks for the catalog when top_n_per_gene returned rows
TblAsksCatalog(f, kind) ==
  /\ "analysis_type" \in f.cols
  /\ SortCols(f.cols) # <<>>
  /\ \E i \in 1..Len(f.rows) : f.rows[i].analysis_type = kind

\* plot_out asks for the catalog when prepared_df has rows
PlotAsksCatalog(f, metric, threshold) ==
  prepared_df(f, metric, threshold).rows # <<>>

ViewKinds == {KIND_CONT, KIND_PHE}
OutcomeIds == <<"O1", "O2", "O3", "O4", "O5">>
ViewThreshold == DefaultThreshold

\* the (q, p) pairs of the rows, below and above the threshold
ViewPairs(cols) ==
  IF "q" \in cols THEN {<<1, 9>>, <<2, 1>>, <<NaN, 1>>, <<9, 1>>}
  ELSE {<<NaN, m>> : m \in PValues}

ViewRows(cols) ==
  {Row(0, "PCSK9", k, "O1", qp[2], qp[1], NA) :
     k \in ViewKinds, qp \in ViewPairs(cols)}

\* every row of a result set is another outcome
Numbered(rows) ==
  [i \in 1..Len(rows) |-> [rows[i] EXCEPT !.idx = i - 1, !.outcome_id = OutcomeIds[i]]]

InitView ==
  /\ \E qs \in SUBSET {"q"}, k \in 0..MaxRows :
       \E rs \in [1..k -> ViewRows(qs)] :
          df = Frame(BaseCols \cup {"p"} \cup qs, Numbered(rs))
  /\ catalog = ResponseFrame({CatalogEntry("O1", NoLabels)})
  /\ filters = None
  /\ call = NoCall
  /\ res = NoResult
  /\ IoIdle
  /\ NoRequests

\* a table output renders: _tbl(kind, None) under the inputs
Tbl(kind, metric, threshold, limit, ok) ==
  /\ call.fn = "none"
  /\ call' = [NoCall EXCEPT !.fn = "_tbl", !.kind = kind, !.metric = metric,
                            !.threshold = threshold, !.n = limit]
  /\ IF TblAsksCatalog(df, kind)
     THEN /\ IF CatalogResult(ok).raised THEN res' = Raised
             ELSE res' \in tbl(df, CatalogOf(CatalogResult(ok)), kind, filters,
                               metric, threshold, limit)
          /\ CatalogCall(ok)
     ELSE /\ res' \in tbl(df, EmptyFrame, kind, filters, metric, threshold, limit)
          /\ UNCHANGED <<cache, fetches, failures>>
  /\ UNCHANGED <<df, catalog, filters>>
  /\ UNCHANGED ioVars

\* the plot output renders under the same inputs: the table is kept in runs
PlotOut(ok) ==
  /\ call.fn = "_tbl"
  /\ runs = <<>>
  /\ runs' = <<res>>
  /\ call' = [call EXCEPT !.fn = "plot_out"]
  /\ IF PlotAsksCatalog(df, call.metric, call.threshold)
     THEN /\ IF CatalogResult(ok).raised THEN res' = Raised
             ELSE res' \in plot_out(df, CatalogOf(CatalogResult(ok)), NoPanels,
                                    call.metric, call.threshold, call.n)
          /\ CatalogCall(ok)
     ELSE /\ res' \in plot_out(df, EmptyFrame, NoPanels,
                               call.metric, call.threshold, call.n)
          /\ UNCHANGED <<cache, fetches, failures>>
  /\ UNCHANGED <<df, catalog, filters>>
  /\ UNCHANGED <<genes, remote, logs, threads, draws, dl_msg>>

NextView ==
  \/ \E kind \in ViewKinds, metric \in {"p", "q"}, limit \in 1..MaxN, ok \in BOOLEAN :
        Tbl(kind, metric, ViewThreshold, limit, ok)
  \/ \E ok \in BOOLEAN : PlotOut(ok)

SpecView == InitView /\ [][NextView]_vars

\* the (gene, outcome) pairs of the rows of category k
PairsOfKind(rows, k) ==
  {<<rows[i].gene, rows[i].outcome_id>> :
     i \in {j \in 1..Len(rows) : rows[j].analysis_type = k}}

BothShown ==
  /\ call.fn = "plot_out"
  /\ Len(runs) = 1
  /\ ~runs[1].raised
  /\ ~res.raised

\* C24: for the same loaded result set, metric, threshold and limit and with
\* no category filter active, the table of a category and the plot show the
\* same (gene, outcome) rows of that category.
C24_TableAndPlotAgree ==
  BothShown =>
    PairsOfKind(runs[1].rows, call.kind) = PairsOfKind(res.rows, call.kind)

\* the same when the metric is the column the rows are ranked by and no two
\* rows tie on it
TableAndPlotAgreeOnRankedMetric ==
  (/\ BothShown
   /\ call.metric = (IF "q" \in df.cols THEN "q" ELSE "p")
   /\ \A i, j \in 1..Len(df.rows) :
         i # j => Field(df.rows[i], call.metric) # Field(df.rows[j], call.metric)
                  \/ Field(df.rows[i], call.metric) = NaN)
    => PairsOfKind(runs[1].rows, call.kind) = PairsOfKind(res.rows, call.kind)

-----------------------------------------------------------------------------
(* Enrichment of a part of a table: enrich_labels on the whole table, then *)
(* on some of its rows                                                     *)

\* enrich_labels applied to the rows of df at the positions keep, which
\* carry their index labels as a selection of rows does; the result for the
\* whole table is kept in runs
EnrichSubset(keep) ==
  /\ call.fn = "enrich_labels"
  /\ ~res.raised
  /\ runs = <<>>
  /\ runs' = <<res>>
  /\ call' = [call EXCEPT !.fn = "enrich_labels of a subset"]
  /\ df' = Frame(df.cols, SelectSeq2(df.rows, keep))
  /\ res' = enrich_labels(df', CatalogReturned)
  /\ CatalogCall(TRUE)
  /\ UNCHANGED <<catalog, filters>>
  /\ UNCHANGED <<genes, remote, logs, threads, draws, dl_msg>>

NextSubset ==
  \/ Enrich
  \/ \E keep \in SUBSET (1..MaxLabelRows) :
        keep # {} /\ keep \subseteq 1..Len(df.rows) /\ EnrichSubset(keep)

SpecSubset == InitEnrich /\ [][NextSubset]_vars

\* C25: the Description enrich_labels gives a row depends only on the row
\* and the catalog: enriching a subset of a table gives each row the same
\* Description as enriching the whole table.
C25_DescriptionOfRowAlone ==
  (call.fn = "enrich_labels of a subset" /\ ~res.raised) =>
    \A i \in 1..Len(res.rows) :
       res.rows[i].Description = runs[1].rows[df.rows[i].idx + 1].Description

\* the same on tables without an outcome_string column of their own and
\* under catalogs with at most one label column
DescriptionOfRowAloneOnOneColumn ==
  (/\ call.fn = "enrich_labels of a subset" /\ ~res.raised
   /\ "outcome_string" \notin df.cols
   /\ Cardinality(catalog.cols \cap LabelColSet) <= 1)
    => \A i \in 1..Len(res.rows) :
          res.rows[i].Description = runs[1].rows[df.rows[i].idx + 1].Description

-----------------------------------------------------------------------------
(* The cache of outcome_catalog across failures *)

\* the calls of Spec on a table without rows or with one row: what the cache
\* does is the same for every table that has rows
InitCache ==
  /\ \E rs \in {<<>>} \cup {<<r>> : r \in AppRows} :
        df = Frame(BaseCols \cup {"p"}, Reindexed(rs))
  /\ catalog \in AppResponses
  /\ call = NoCall
  /\ res = NoResult
  /\ IoIdle
  /\ filters = None /\ NoRequests

SpecCache == InitCache /\ [][Next]_vars

\* C26: a failed catalog fetch leaves the cache of outcome_catalog
\* unpopulated: the error reaches the caller and nothing is cached, the next
\* outcome_catalog call on the empty cache issues a new fetch, and once a
\* fetch has succeeded the cache keeps its frame and no later call of
\* outcome_catalog fetches again.
C26_FailureLeavesCacheEmpty ==
  [][/\ failures' > failures => (res'.raised /\ cache' = cache)
     /\ (failures' > failures /\ call'.fn # "get_label_list") => ~cache'.full
     /\ (call'.fn = "outcome_catalog" /\ ~cache.full)
          => (fetches' = fetches + 1 /\ (cache'.full <=> ~res'.raised))
     /\ cache.full
          => /\ cache' = cache
             /\ call'.fn # "get_label_list" => fetches' = fetches
             /\ call'.fn = "outcome_catalog" => res' = Returned(cache.frame)]_vars

\* outcome_catalog was called three times: the first request failed, the
\* second succeeded, the third call was answered from the cache
C26_Witness ==
  /\ call.fn = "outcome_catalog"
  /\ failures = 1
  /\ fetches = 2
  /\ cache.full
  /\ res = Returned(cache.frame)
  /\ cache.frame.rows # <<>>

-----------------------------------------------------------------------------
(* The log window: loads, plot requests, threshold changes and downloads   *)

MaxClicks == 2

\* the lines of the handlers that log one line
ClickLines == {"plot requested", "threshold requested", "downloaded"}
Clicks == Cardinality({i \in 1..Len(logs) : logs[i].kind \in ClickLines})

NoDataToDownload == "No data to download."

\* log_plot
LogPlot ==
  /\ Clicks < MaxClicks
  /\ call' = [NoCall EXCEPT !.fn = "log_plot"]
  /\ logs' = AppendLog(logs, Msg("plot requested", <<>>, 0))
  /\ UNCHANGED <<df, catalog, filters, res, cache, fetches, failures>>
  /\ UNCHANGED <<genes, remote, threads, draws, runs, dl_msg>>

\* log_threshold
LogThreshold(threshold) ==
  /\ Clicks < MaxClicks
  /\ call' = [NoCall EXCEPT !.fn = "log_threshold", !.threshold = threshold]
  /\ logs' = AppendLog(logs, Msg("threshold requested", <<>>, threshold))
  /\ UNCHANGED <<df, catalog, filters, res, cache, fetches, failures>>
  /\ UNCHANGED <<genes, remote, threads, draws, runs, dl_msg>>

\* df.to_csv(index=False): all rows, without their index labels
to_csv(f) == Frame(f.cols, [i \in 1..Len(f.rows) |-> [f.rows[i] EXCEPT !.idx = NaN]])

\* download_csv: without data only the message changes
DownloadCsv ==
  /\ call' = [NoCall EXCEPT !.fn = "download_csv"]
  /\ IF df.rows = <<>>
     THEN /\ dl_msg' = NoDataToDownload
          /\ res' = NoResult
          /\ UNCHANGED logs
     ELSE /\ Clicks < MaxClicks
          /\ logs' = AppendLog(logs, Msg("downloaded", <<>>, 0))
          /\ res' = Returned(to_csv(df))
          /\ UNCHANGED dl_msg
  /\ UNCHANGED <<df, catalog, filters, cache, fetches, failures>>
  /\ UNCHANGED <<genes, remote, threads, draws, runs>>

\* the texts of the logged loads: no token, or both names
LogTexts == {<<>>, <<"a", ",", "B">>}

\* the answers of the service during a logged load: A is unknown and B has a
\* row, or A has no results and the results of B fail
LogRemotes ==
  {rem \in ReloadRemotes :
     \/ /\ rem.resolve[<<"A">>] = JsonList(<<>>)
        /\ rem.fetch[GeneId(<<"A">>)] = NoAnswer
        /\ rem.resolve[<<"B">>] # JsonList(<<>>)
        /\ rem.fetch[GeneId(<<"B">>)] = Results(<<ResultRow("O1")>>)
     \/ /\ rem.resolve[<<"A">>] # JsonList(<<>>)
        /\ rem.fetch[GeneId(<<"A">>)] = Results(<<>>)
        /\ rem.resolve[<<"B">>] # JsonList(<<>>)
        /\ rem.fetch[GeneId(<<"B">>)] = NoAnswer}

NextLog ==
  \/ \E text \in LogTexts, rem \in LogRemotes : Reload(text, rem)
  \/ LogPlot
  \/ LogThreshold(DefaultThreshold)
  \/ DownloadCsv

SpecLog == InitLoad /\ [][NextLog]_vars

\* the lines a turn of the loop logs for a token
StatusLines == {"skipping", "rows", "no results", "error"}

\* C27: the log is append-only: every step keeps the earlier lines as they
\* are, and a load over k gene tokens appends exactly one status line per
\* token (skipped, row count, no results or error) followed by exactly one
\* closing line.
C27_LogAppendOnly ==
  [][/\ Len(logs') >= Len(logs)
     /\ SubSeq(logs', 1, Len(logs)) = logs
     /\ call'.fn = "load_phenos" =>
          LET k == Len(parse_gene_list(genes'))
              new == SubSeq(logs', Len(logs) + 1, Len(logs'))
          IN /\ Len(new) = k + 1
             /\ \A i \in 1..k : new[i].kind \in StatusLines
             /\ new[k + 1].kind \in Closing]_vars

\* a plot request, then a load of two tokens of which one is skipped and
\* one has rows, then a download: five lines in that order
C27_Witness ==
  /\ Len(logs) = 5
  /\ logs[1].kind = "plot requested"
  /\ logs[2].kind = "skipping"
  /\ logs[3].kind = "rows"
  /\ logs[4].kind = "total"
  /\ logs[5].kind = "downloaded"
  /\ call.fn = "download_csv"

=============================================================================
